---- MODULE Spec2Model ----
(***************************************************************************)
(* Model of Scripts/workflow_visualizer.py: the two diagram emitters       *)
(* (generate_mermaid_diagram, generate_dot_diagram), the sample workflow   *)
(* and the command line entry point main.                                  *)
(*                                                                         *)
(* A JSON / Python value is a record [k, v]: k is its kind ("str", "num",  *)
(* "null", "list", "dict"), v its payload (the text of a string, the       *)
(* decimal text of a number, the items of a list, the key -> value         *)
(* function of a dict).  An emitted text is a sequence of tokens: the      *)
(* literal pieces and the interpolated values of the f-strings, with a     *)
(* "\n" token wherever '\n'.join puts a newline.  Strings are atomic: no   *)
(* string of the model holds a newline character.  The icons are written   *)
(* by code point ("U+1F680" is the rocket), the module being ASCII.        *)
(***************************************************************************)
EXTENDS Integers, Sequences, FiniteSets, TLC

VARIABLES
    workflow_data,  \* the record handed to an emitter / loaded by main
    called,         \* the emitter calls made so far, in order
    result,         \* outcome of the last emitter call: [ok, exc, text]
    argv,           \* sys.argv of the run of main
    file,           \* what open()/json.load() find at argv[2]
    pc,             \* position of main
    format_type,    \* main's local format_type
    stdout,         \* what main printed on standard output, in order
    stderr,         \* uncaught-exception tracebacks of the interpreter
    exit_status     \* -1 while running, else the exit status of the process

vars == <<workflow_data, called, result, argv, file, pc, format_type,
          stdout, stderr, exit_status>>

(***************************************************************************)
(* Values                                                                  *)
(***************************************************************************)
JStr(s) == [k |-> "str", v |-> s]
JNum(s) == [k |-> "num", v |-> s]
JNull == [k |-> "null", v |-> "null"]
JList(l) == [k |-> "list", v |-> l]
Absent == [k |-> "absent", v |-> ""]

\* A dict from a record of fields; a field given as Absent is a missing key.
JDict(f) ==
    [k |-> "dict",
     v |-> [key \in {x \in DOMAIN f : f[x].k # "absent"} |-> f[key]]]

\* obj.get(key, default): only a mapping has .get (else AttributeError).
HasGet(obj) == obj.k = "dict"

dict_get(obj, key, default) ==
    IF key \in DOMAIN obj.v THEN obj.v[key] ELSE default

\* iter(obj) of a for loop: None and numbers are not iterable (TypeError).
Iterable(obj) == obj.k = "list"

\* {value} inside an f-string: format(value, ''), i.e. str(value).
Format(value) ==
    CASE value.k = "str" -> value.v
      [] value.k = "num" -> value.v
      [] value.k = "null" -> "None"

\* `if label is not None:` in place of `if label:`.
Truthy_not_none(value) == value.k # "null"

\* bool(value) of `if label:`.
Truthy(value) ==
    CASE value.k = "str" -> value.v # ""
      [] value.k = "num" -> value.v # "0"
      [] value.k = "null" -> FALSE

\* value == 'literal'
PyEq(value, literal) == value.k = "str" /\ value.v = literal

Returned(text) == [ok |-> TRUE, exc |-> "", text |-> text]
Raised(exc) == [ok |-> FALSE, exc |-> exc, text |-> <<>>]
NoResult == [ok |-> FALSE, exc |-> "not called", text |-> <<>>]

\* '\n'.join(lines): the lines with a newline between neighbours, built by
\* halves.
RECURSIVE Join(_)
Join(lines) ==
    IF lines = <<>> THEN <<>>
    ELSE IF Len(lines) = 1 THEN lines[1]
    ELSE LET half == Len(lines) \div 2
         IN Join(SubSeq(lines, 1, half)) \o <<"\n">>
               \o Join(SubSeq(lines, half + 1, Len(lines)))

(***************************************************************************)
(* generate_mermaid_diagram                                                *)
(***************************************************************************)
\* node.get('id') with the default left out.
node_id_of_no_default(node) == dict_get(node, "id", JNull)

node_id_of(node) == dict_get(node, "id", JStr("unknown"))
node_name_of(node) == dict_get(node, "name", JStr("Unknown"))
node_type_of(node) == dict_get(node, "type", JStr("executor"))
from_node_of(edge) == dict_get(edge, "from", JStr("unknown"))
to_node_of(edge) == dict_get(edge, "to", JStr("unknown"))
label_of(edge) == dict_get(edge, "label", JStr(""))

MermaidIcon(node_type) ==
    IF PyEq(node_type, "start") THEN "U+1F680"
    ELSE IF PyEq(node_type, "end") THEN "U+1F3C1"
    ELSE IF PyEq(node_type, "agent") THEN "U+1F916"
    ELSE IF PyEq(node_type, "function") THEN "U+2699 U+FE0F"
    ELSE IF PyEq(node_type, "condition") THEN "U+1F500"
    ELSE "U+1F4E6"

MermaidNodeLine(node) ==
    <<"    ", Format(node_id_of(node)), "[\"",
      MermaidIcon(node_type_of(node)), " ", Format(node_name_of(node)), "\"]">>

MermaidEdgeLine(edge) ==
    IF Truthy(label_of(edge))
    THEN <<"    ", Format(from_node_of(edge)), " -->|", Format(label_of(edge)),
           "| ", Format(to_node_of(edge))>>
    ELSE <<"    ", Format(from_node_of(edge)), " --> ", Format(to_node_of(edge))>>

\* The class pass with the condition branch missing.
MermaidClass_no_condition(node_type) ==
    IF PyEq(node_type, "start") THEN "startNode"
    ELSE IF PyEq(node_type, "end") THEN "endNode"
    ELSE IF PyEq(node_type, "agent") THEN "agentNode"
    ELSE IF PyEq(node_type, "function") THEN "functionNode"
    ELSE ""

\* The class of a styled type, "" for a type that gets no class line.
MermaidClass(node_type) ==
    IF PyEq(node_type, "start") THEN "startNode"
    ELSE IF PyEq(node_type, "end") THEN "endNode"
    ELSE IF PyEq(node_type, "agent") THEN "agentNode"
    ELSE IF PyEq(node_type, "function") THEN "functionNode"
    ELSE IF PyEq(node_type, "condition") THEN "conditionNode"
    ELSE ""

MermaidClassLine(node) ==
    <<"    class ", Format(node_id_of(node)), " ",
      MermaidClass(node_type_of(node))>>

\* The styling block emitted without its leading blank line.
MermaidStyling_no_blank ==
    << <<"    %% Styling">>,
       <<"    classDef startNode fill:#90EE90,stroke:#333,stroke-width:2px">>,
       <<"    classDef endNode fill:#FFB6C1,stroke:#333,stroke-width:2px">>,
       <<"    classDef agentNode fill:#87CEEB,stroke:#333,stroke-width:2px">>,
       <<"    classDef functionNode fill:#FFE4B5,stroke:#333,stroke-width:2px">>,
       <<"    classDef conditionNode fill:#DDA0DD,stroke:#333,stroke-width:2px">> >>

MermaidStyling ==
    << <<>>,
       <<"    %% Styling">>,
       <<"    classDef startNode fill:#90EE90,stroke:#333,stroke-width:2px">>,
       <<"    classDef endNode fill:#FFB6C1,stroke:#333,stroke-width:2px">>,
       <<"    classDef agentNode fill:#87CEEB,stroke:#333,stroke-width:2px">>,
       <<"    classDef functionNode fill:#FFE4B5,stroke:#333,stroke-width:2px">>,
       <<"    classDef conditionNode fill:#DDA0DD,stroke:#333,stroke-width:2px">> >>

\* The loops: [ok, exc, text] with text the list of lines built so far.
RECURSIVE MermaidAddNodes(_, _, _)
MermaidAddNodes(mermaid, nodes, i) ==
    IF i > Len(nodes) THEN Returned(mermaid)
    ELSE IF ~HasGet(nodes[i]) THEN Raised("AttributeError")
    ELSE MermaidAddNodes(Append(mermaid, MermaidNodeLine(nodes[i])), nodes, i + 1)

\* The edge loop walking the edges from the last to the first.
RECURSIVE MermaidAddEdges_reversed(_, _, _)
MermaidAddEdges_reversed(mermaid, edges, i) ==
    IF i > Len(edges) THEN Returned(mermaid)
    ELSE IF ~HasGet(edges[Len(edges) + 1 - i]) THEN Raised("AttributeError")
    ELSE MermaidAddEdges_reversed(
            Append(mermaid, MermaidEdgeLine(edges[Len(edges) + 1 - i])), edges, i + 1)

RECURSIVE MermaidAddEdges(_, _, _)
MermaidAddEdges(mermaid, edges, i) ==
    IF i > Len(edges) THEN Returned(mermaid)
    ELSE IF ~HasGet(edges[i]) THEN Raised("AttributeError")
    ELSE MermaidAddEdges(Append(mermaid, MermaidEdgeLine(edges[i])), edges, i + 1)

RECURSIVE MermaidApplyStyles(_, _, _)
MermaidApplyStyles(mermaid, nodes, i) ==
    IF i > Len(nodes) THEN Returned(mermaid)
    ELSE IF ~HasGet(nodes[i]) THEN Raised("AttributeError")
    ELSE IF MermaidClass(node_type_of(nodes[i])) = ""
    THEN MermaidApplyStyles(mermaid, nodes, i + 1)
    ELSE MermaidApplyStyles(Append(mermaid, MermaidClassLine(nodes[i])), nodes, i + 1)

generate_mermaid_diagram(wd) ==
    IF ~HasGet(wd) THEN Raised("AttributeError")
    ELSE
    LET nodes == dict_get(wd, "nodes", JList(<<>>))
        edges == dict_get(wd, "edges", JList(<<>>))
        r1 == IF Iterable(nodes)
              THEN MermaidAddNodes(<< <<"graph TD">> >>, nodes.v, 1)
              ELSE Raised("TypeError")
        r2 == IF ~r1.ok THEN r1
              ELSE IF Iterable(edges) THEN MermaidAddEdges(r1.text, edges.v, 1)
              ELSE Raised("TypeError")
        r3 == IF ~r2.ok THEN r2
              ELSE MermaidApplyStyles(r2.text \o MermaidStyling, nodes.v, 1)
    IN IF r3.ok THEN Returned(Join(r3.text)) ELSE r3

(***************************************************************************)
(* generate_dot_diagram                                                    *)
(***************************************************************************)
DotColor(node_type) ==
    IF PyEq(node_type, "start") THEN "lightgreen"
    ELSE IF PyEq(node_type, "end") THEN "lightcoral"
    ELSE IF PyEq(node_type, "agent") THEN "lightblue"
    ELSE IF PyEq(node_type, "function") THEN "lightyellow"
    ELSE IF PyEq(node_type, "condition") THEN "plum"
    ELSE "lightgray"

DotNodeLine(node) ==
    <<"    ", Format(node_id_of(node)), " [label=\"", Format(node_name_of(node)),
      "\", fillcolor=", DotColor(node_type_of(node)),
      ", style=\"filled,rounded\"];">>

DotEdgeLine(edge) ==
    IF Truthy(label_of(edge))
    THEN <<"    ", Format(from_node_of(edge)), " -> ", Format(to_node_of(edge)),
           " [label=\"", Format(label_of(edge)), "\"];">>
    ELSE <<"    ", Format(from_node_of(edge)), " -> ", Format(to_node_of(edge)), ";">>

DotHeader ==
    << <<"digraph Workflow {">>,
       <<"    rankdir=LR;">>,
       <<"    node [shape=box, style=rounded];">>,
       <<>> >>

\* The node loop declaring each id once only.
RECURSIVE DotAddNodes_unique(_, _, _)
DotAddNodes_unique(dot, nodes, i) ==
    IF i > Len(nodes) THEN Returned(dot)
    ELSE IF ~HasGet(nodes[i]) THEN Raised("AttributeError")
    ELSE IF \E j \in 1..(i - 1) : node_id_of(nodes[j]) = node_id_of(nodes[i])
    THEN DotAddNodes_unique(dot, nodes, i + 1)
    ELSE DotAddNodes_unique(Append(dot, DotNodeLine(nodes[i])), nodes, i + 1)

RECURSIVE DotAddNodes(_, _, _)
DotAddNodes(dot, nodes, i) ==
    IF i > Len(nodes) THEN Returned(dot)
    ELSE IF ~HasGet(nodes[i]) THEN Raised("AttributeError")
    ELSE DotAddNodes(Append(dot, DotNodeLine(nodes[i])), nodes, i + 1)

RECURSIVE DotAddEdges(_, _, _)
DotAddEdges(dot, edges, i) ==
    IF i > Len(edges) THEN Returned(dot)
    ELSE IF ~HasGet(edges[i]) THEN Raised("AttributeError")
    ELSE DotAddEdges(Append(dot, DotEdgeLine(edges[i])), edges, i + 1)

generate_dot_diagram(wd) ==
    IF ~HasGet(wd) THEN Raised("AttributeError")
    ELSE
    LET nodes == dict_get(wd, "nodes", JList(<<>>))
        edges == dict_get(wd, "edges", JList(<<>>))
        r1 == IF Iterable(nodes) THEN DotAddNodes(DotHeader, nodes.v, 1)
              ELSE Raised("TypeError")
        r2 == IF ~r1.ok THEN r1
              ELSE IF Iterable(edges)
              THEN DotAddEdges(Append(r1.text, <<>>), edges.v, 1)
              ELSE Raised("TypeError")
    IN IF r2.ok THEN Returned(Join(Append(r2.text, <<"}">>))) ELSE r2

(***************************************************************************)
(* create_sample_workflow                                                  *)
(***************************************************************************)
Node(id, name, type) == JDict([id |-> id, name |-> name, type |-> type])
Edge(from, to, label) == JDict([from |-> from, to |-> to, label |-> label])
Workflow(name, nodes, edges) == JDict([name |-> name, nodes |-> nodes, edges |-> edges])

create_sample_workflow ==
    Workflow(JStr("Research and Analysis Workflow"),
        JList(<< Node(JStr("start"), JStr("Start"), JStr("start")),
                 Node(JStr("research"), JStr("Research Agent"), JStr("agent")),
                 Node(JStr("analysis"), JStr("Analysis Agent"), JStr("agent")),
                 Node(JStr("report"), JStr("Report Generator"), JStr("function")),
                 Node(JStr("review"), JStr("Review Process"), JStr("condition")),
                 Node(JStr("end"), JStr("End"), JStr("end")) >>),
        JList(<< Edge(JStr("start"), JStr("research"), JStr("Begin Research")),
                 Edge(JStr("research"), JStr("analysis"), JStr("Research Complete")),
                 Edge(JStr("analysis"), JStr("report"), JStr("Analysis Complete")),
                 Edge(JStr("report"), JStr("review"), JStr("Generate Report")),
                 Edge(JStr("review"), JStr("end"), JStr("Approved")),
                 Edge(JStr("review"), JStr("analysis"), JStr("Needs Revision")) >>))

(***************************************************************************)
(* Input records                                                           *)
(***************************************************************************)
MaxNodes == 2
MaxEdges == 2

SeqsUpTo(S, n) == UNION {[1..m -> S] : m \in 0..n}

TypeValues ==
    {Absent, JStr("start"), JStr("end"), JStr("agent"), JStr("function"),
     JStr("condition"), JStr("executor"), JStr("bogus")}

\* Node entries: every type value; a second id; a missing id; a missing
\* name; no key at all; fields of the wrong type; an entry that is no mapping.
NodeEntries ==
    {Node(JStr("a"), JStr("A"), t) : t \in TypeValues}
    \cup {Node(JStr("b"), JStr("B"), JStr("start")),
          Node(Absent, JStr("B"), JStr("agent")),
          Node(JStr("a"), Absent, JStr("end")),
          Node(Absent, Absent, Absent),
          Node(JNum("7"), JNull, JNum("7")),
          JNull}

\* Edge entries: labels absent, empty, non-empty and of the wrong type; a
\* self-loop, a back edge, dangling endpoints, no key at all; an entry that
\* is no mapping.
EdgeEntries ==
    {Edge(JStr("a"), JStr("b"), l) :
        l \in {Absent, JStr(""), JStr("go"), JNull, JNum("0"), JNum("5")}}
    \cup {Edge(JStr("a"), JStr("a"), JStr("loop")),
          Edge(JStr("b"), JStr("a"), JStr("back")),
          Edge(JStr("c"), JStr("d"), Absent),
          Edge(Absent, Absent, Absent),
          JNull}

NodeLists == {Absent} \cup {JList(l) : l \in SeqsUpTo(NodeEntries, MaxNodes)}
EdgeLists == {Absent} \cup {JList(l) : l \in SeqsUpTo(EdgeEntries, MaxEdges)}

TwoNodes ==
    JList(<< Node(JStr("a"), JStr("A"), JStr("start")),
             Node(JStr("b"), JStr("B"), JStr("agent")) >>)
OneEdge == JList(<< Edge(JStr("a"), JStr("b"), JStr("go")) >>)

BareEdge == JList(<< Edge(Absent, Absent, Absent) >>)

\* The records handed to the emitters: every node list with a few edge
\* lists, every edge list with a few node lists, records whose nodes or
\* edges are no sequence, and the sample.
Inputs ==
    {Workflow(Absent, n, e) :
        n \in NodeLists, e \in {Absent, JList(<<>>), OneEdge, BareEdge}}
    \cup {Workflow(Absent, n, e) :
        n \in {Absent, JList(<<>>), TwoNodes}, e \in EdgeLists}
    \cup {Workflow(Absent, n, Absent) : n \in {JNull, JNum("7")}}
    \cup {Workflow(Absent, TwoNodes, JNull)}
    \cup {create_sample_workflow}

(***************************************************************************)
(* The emitters called as library functions                                *)
(***************************************************************************)
MainIdle ==
    /\ argv = <<>>
    /\ file = "none"
    /\ pc = "idle"
    /\ format_type = ""
    /\ stdout = <<>>
    /\ stderr = <<>>
    /\ exit_status = -1

mainVars == <<argv, file, pc, format_type, stdout, stderr, exit_status>>

Init ==
    /\ workflow_data \in Inputs
    /\ called = <<>>
    /\ result = NoResult
    /\ MainIdle

\* A caller hands workflow_data to generate_mermaid_diagram.
CallMermaid ==
    /\ pc = "idle"
    /\ called' = <<"mermaid">>
    /\ result' = generate_mermaid_diagram(workflow_data)
    /\ UNCHANGED <<workflow_data, mainVars>>

\* A caller hands workflow_data to generate_dot_diagram.
CallDot ==
    /\ pc = "idle"
    /\ called' = <<"dot">>
    /\ result' = generate_dot_diagram(workflow_data)
    /\ UNCHANGED <<workflow_data, mainVars>>

Next == CallMermaid \/ CallDot

Spec == Init /\ [][Next]_vars

(***************************************************************************)
(* main                                                                    *)
(***************************************************************************)
Script == "workflow_visualizer.py"
Path == "workflow.json"

Modes == {"mermaid", "dot", "MERMAID", "Dot", "svg", ""}

\* str.lower() on the mode strings of the model.
str_lower(s) ==
    CASE s = "MERMAID" -> "mermaid"
      [] s = "Dot" -> "dot"
      [] OTHER -> s

\* What json.load can return from a readable file holding JSON.
FileContents ==
    {create_sample_workflow,
     Workflow(Absent, Absent, Absent),
     Workflow(Absent, TwoNodes, OneEdge),
     Workflow(Absent, JNull, Absent),
     Workflow(Absent, JList(<<JNull>>), Absent),
     JList(<<>>),
     JNull}

\* The file at argv[2]: missing (FileNotFoundError), unreadable (any other
\* error of open or read, which main does not catch), invalid
\* (json.JSONDecodeError), or holding JSON.
Files ==
    {[state |-> st, content |-> Absent] : st \in {"missing", "unreadable", "invalid"}}
    \cup {[state |-> "json", content |-> c] : c \in FileContents}
NoFile == [state |-> "none", content |-> Absent]

UsageLines ==
    << <<"Usage: python workflow_visualizer.py <format> [workflow_file]">>,
       <<"Formats: mermaid, dot">>,
       <<"If no workflow file is provided, a sample workflow will be used.">> >>
NotFoundMessage(path) == <<"Error: Workflow file '", path, "' not found.">>
InvalidJsonMessage(path) == <<"Error: Invalid JSON in workflow file '", path, "'.">>
UnknownFormatMessage(fmt) == <<"Error: Unknown format '", fmt, "'. Use 'mermaid' or 'dot'.">>
Traceback(exc) == <<"Traceback (most recent call last):", exc>>

\* The branch format_type selects.
Dispatch_default_mermaid(fmt) == IF fmt = "dot" THEN "dot" ELSE "mermaid"

Dispatch(fmt) ==
    IF fmt = "mermaid" THEN "mermaid"
    ELSE IF fmt = "dot" THEN "dot"
    ELSE "unknown"

InitMain ==
    /\ workflow_data = Absent
    /\ called = <<>>
    /\ result = NoResult
    /\ \/ argv = <<Script>> /\ file = NoFile
       \/ \E m \in Modes : argv = <<Script, m>> /\ file = NoFile
       \/ \E m \in Modes : argv = <<Script, m, Path>> /\ file \in Files
    /\ pc = "start"
    /\ format_type = ""
    /\ stdout = <<>>
    /\ stderr = <<>>
    /\ exit_status = -1

\* len(sys.argv) < 2: usage, sys.exit(1).
MainUsage ==
    /\ pc = "start"
    /\ Len(argv) < 2
    /\ stdout' = stdout \o UsageLines
    /\ exit_status' = 1
    /\ pc' = "exited"
    /\ UNCHANGED <<workflow_data, called, result, argv, file, format_type, stderr>>

\* format_type = sys.argv[1].lower()
MainReadFormat ==
    /\ pc = "start"
    /\ Len(argv) >= 2
    /\ format_type' = str_lower(argv[2])
    /\ pc' = "load"
    /\ UNCHANGED <<workflow_data, called, result, argv, file, stdout, stderr, exit_status>>

\* No file argument: workflow_data = create_sample_workflow().
MainUseSample ==
    /\ pc = "load"
    /\ Len(argv) <= 2
    /\ workflow_data' = create_sample_workflow
    /\ pc' = "dispatch"
    /\ UNCHANGED <<called, result, argv, file, format_type, stdout, stderr, exit_status>>

\* workflow_data = json.load(f)
MainLoadFile ==
    /\ pc = "load"
    /\ Len(argv) > 2
    /\ file.state = "json"
    /\ workflow_data' = file.content
    /\ pc' = "dispatch"
    /\ UNCHANGED <<called, result, argv, file, format_type, stdout, stderr, exit_status>>

\* except FileNotFoundError
MainFileNotFound ==
    /\ pc = "load"
    /\ Len(argv) > 2
    /\ file.state = "missing"
    /\ stdout' = Append(stdout, NotFoundMessage(argv[3]))
    /\ exit_status' = 1
    /\ pc' = "exited"
    /\ UNCHANGED <<workflow_data, called, result, argv, file, format_type, stderr>>

\* except json.JSONDecodeError
MainInvalidJson ==
    /\ pc = "load"
    /\ Len(argv) > 2
    /\ file.state = "invalid"
    /\ stdout' = Append(stdout, InvalidJsonMessage(argv[3]))
    /\ exit_status' = 1
    /\ pc' = "exited"
    /\ UNCHANGED <<workflow_data, called, result, argv, file, format_type, stderr>>

\* Any other exception of open or json.load leaves main uncaught: the
\* interpreter prints the traceback and exits with status 1.
MainLoadRaises ==
    /\ pc = "load"
    /\ Len(argv) > 2
    /\ file.state = "unreadable"
    /\ stderr' = Append(stderr, Traceback("OSError"))
    /\ exit_status' = 1
    /\ pc' = "exited"
    /\ UNCHANGED <<workflow_data, called, result, argv, file, format_type, stdout>>

\* The call of an emitter from main: its return value goes to diagram, its
\* exception leaves main uncaught.
MainCall(name, outcome) ==
    /\ called' = Append(called, name)
    /\ result' = outcome
    /\ IF outcome.ok
       THEN /\ pc' = "print"
            /\ UNCHANGED <<stderr, exit_status>>
       ELSE /\ stderr' = Append(stderr, Traceback(outcome.exc))
            /\ exit_status' = 1
            /\ pc' = "exited"
    /\ UNCHANGED <<workflow_data, argv, file, format_type, stdout>>

\* diagram = generate_mermaid_diagram(workflow_data)
MainCallMermaid ==
    /\ pc = "dispatch"
    /\ Dispatch(format_type) = "mermaid"
    /\ MainCall("mermaid", generate_mermaid_diagram(workflow_data))

\* diagram = generate_dot_diagram(workflow_data)
MainCallDot ==
    /\ pc = "dispatch"
    /\ Dispatch(format_type) = "dot"
    /\ MainCall("dot", generate_dot_diagram(workflow_data))

\* else: unknown format, sys.exit(1).
MainUnknownFormat ==
    /\ pc = "dispatch"
    /\ Dispatch(format_type) = "unknown"
    /\ stdout' = Append(stdout, UnknownFormatMessage(format_type))
    /\ exit_status' = 1
    /\ pc' = "exited"
    /\ UNCHANGED <<workflow_data, called, result, argv, file, format_type, stderr>>

\* print(diagram), then the interpreter exits with status 0.
MainPrint ==
    /\ pc = "print"
    /\ stdout' = Append(stdout, result.text)
    /\ exit_status' = 0
    /\ pc' = "done"
    /\ UNCHANGED <<workflow_data, called, result, argv, file, format_type, stderr>>

NextMain ==
    \/ MainUsage
    \/ MainReadFormat
    \/ MainUseSample
    \/ MainLoadFile
    \/ MainFileNotFound
    \/ MainInvalidJson
    \/ MainLoadRaises
    \/ MainCallMermaid
    \/ MainCallDot
    \/ MainUnknownFormat
    \/ MainPrint

SpecMain == InitMain /\ [][NextMain]_vars

(***************************************************************************)
(* Reading an emitted text back                                            *)
(***************************************************************************)
\* text.split('\n'): the lines of a text, each a sequence of tokens.  Line
\* n runs from after the (n-1)-th newline token to before the n-th.
SplitLines(text) ==
    LET newlines == {i \in DOMAIN text : text[i] = "\n"}
        count == Cardinality(newlines)
        Nth(n) ==
            IF n = 0 THEN 0
            ELSE IF n > count THEN Len(text) + 1
            ELSE CHOOSE i \in newlines : Cardinality({j \in newlines : j < i}) = n - 1
    IN [n \in 1..(count + 1) |-> SubSeq(text, Nth(n - 1) + 1, Nth(n) - 1)]

Lines == SplitLines(result.text)

Emitter == IF called = <<>> THEN "none" ELSE called[Len(called)]

Emit(name, wd) ==
    IF name = "mermaid" THEN generate_mermaid_diagram(wd)
    ELSE generate_dot_diagram(wd)

\* The record's node and edge entries, an absent key being no entries.
InNodes == IF "nodes" \in DOMAIN workflow_data.v THEN workflow_data.v["nodes"].v ELSE <<>>
InEdges == IF "edges" \in DOMAIN workflow_data.v THEN workflow_data.v["edges"].v ELSE <<>>

IsMappingList(wd, key) ==
    key \in DOMAIN wd.v =>
        /\ wd.v[key].k = "list"
        /\ \A i \in DOMAIN wd.v[key].v : wd.v[key].v[i].k = "dict"

\* A graph: a record whose nodes and edges, when present, are sequences of
\* mappings.
IsGraph(wd) ==
    /\ wd.k = "dict"
    /\ IsMappingList(wd, "nodes")
    /\ IsMappingList(wd, "edges")

\* An emitter was called on a graph.
EmittedGraph == Emitter # "none" /\ pc = "idle" /\ IsGraph(workflow_data)

\* The text a field is rendered with: its own when present, else `dflt`.
FieldText(entry, key, dflt) ==
    IF key \in DOMAIN entry.v
    THEN (IF entry.v[key].k = "null" THEN "None" ELSE entry.v[key].v)
    ELSE dflt

(***************************************************************************)
(* C1                                                                      *)
(***************************************************************************)
\* C1: whatever is missing or malformed in the record handed to an emitter,
\* the call returns a text and never fails.
C1_NeverFails == (Emitter # "none" /\ pc = "idle") => result.ok

(***************************************************************************)
(* C2                                                                      *)
(***************************************************************************)
WithDefault(entry, key, dflt) ==
    IF key \in DOMAIN entry.v THEN entry.v[key] ELSE dflt

FilledNode(node) ==
    [k |-> "dict",
     v |-> [id |-> WithDefault(node, "id", JStr("unknown")),
            name |-> WithDefault(node, "name", JStr("Unknown")),
            type |-> WithDefault(node, "type", JStr("executor"))]]

FilledEdge(edge) ==
    [k |-> "dict",
     v |-> [from |-> WithDefault(edge, "from", JStr("unknown")),
            to |-> WithDefault(edge, "to", JStr("unknown")),
            label |-> WithDefault(edge, "label", JStr(""))]]

\* The same record with every default written out.
FilledIn ==
    [k |-> "dict",
     v |-> [nodes |-> JList([i \in DOMAIN InNodes |-> FilledNode(InNodes[i])]),
            edges |-> JList([j \in DOMAIN InEdges |-> FilledEdge(InEdges[j])])]]

\* C2: for every graph, the emitter returns exactly the text it returns for
\* the same graph with the defaults filled in (nodes and edges present, id
\* "unknown", name "Unknown", type "executor", endpoints "unknown", label "").
C2_DefaultSubstitution ==
    EmittedGraph => (result.ok /\ result = Emit(Emitter, FilledIn))

\* A node entry and an edge entry with no key at all were rendered.
C2_Witness ==
    /\ EmittedGraph
    /\ result.ok
    /\ \E i \in DOMAIN InNodes : DOMAIN InNodes[i].v = {}
    /\ \E j \in DOMAIN InEdges : DOMAIN InEdges[j].v = {}
    /\ FilledIn # workflow_data

(***************************************************************************)
(* The statements of an emitted text, recognised by their shape            *)
(***************************************************************************)
IsMermaidDecl(l) == Len(l) = 7 /\ l[1] = "    " /\ l[3] = "[\"" /\ l[7] = "\"]"
IsMermaidConn(l) ==
    \/ Len(l) = 4 /\ l[1] = "    " /\ l[3] = " --> "
    \/ Len(l) = 6 /\ l[1] = "    " /\ l[3] = " -->|" /\ l[5] = "| "
IsMermaidClass(l) == Len(l) = 4 /\ l[1] = "    class "
IsDotDecl(l) == Len(l) = 7 /\ l[1] = "    " /\ l[3] = " [label=\""
IsDotConn(l) ==
    \/ Len(l) = 5 /\ l[1] = "    " /\ l[3] = " -> " /\ l[5] = ";"
    \/ Len(l) = 7 /\ l[1] = "    " /\ l[3] = " -> " /\ l[5] = " [label=\""

IsDecl(l) == IF Emitter = "mermaid" THEN IsMermaidDecl(l) ELSE IsDotDecl(l)
IsConn(l) == IF Emitter = "mermaid" THEN IsMermaidConn(l) ELSE IsDotConn(l)
IsClass(l) == Emitter = "mermaid" /\ IsMermaidClass(l)

DeclLines == SelectSeq(Lines, IsDecl)
ConnLines == SelectSeq(Lines, IsConn)
ClassLines == SelectSeq(Lines, IsClass)

\* Endpoints of a connector line.
ConnFrom(l) == l[2]
ConnTo(l) == IF Emitter = "mermaid" THEN l[Len(l)] ELSE l[4]

(***************************************************************************)
(* C3                                                                      *)
(***************************************************************************)
TypeName(node) ==
    IF "type" \in DOMAIN node.v /\ node.v["type"].k = "str"
    THEN node.v["type"].v ELSE ""

\* The styling the claim gives each type.
StyleOf(node) ==
    CASE TypeName(node) = "start" ->
            [icon |-> "U+1F680", class |-> "startNode", color |-> "lightgreen"]
      [] TypeName(node) = "end" ->
            [icon |-> "U+1F3C1", class |-> "endNode", color |-> "lightcoral"]
      [] TypeName(node) = "agent" ->
            [icon |-> "U+1F916", class |-> "agentNode", color |-> "lightblue"]
      [] TypeName(node) = "function" ->
            [icon |-> "U+2699 U+FE0F", class |-> "functionNode", color |-> "lightyellow"]
      [] TypeName(node) = "condition" ->
            [icon |-> "U+1F500", class |-> "conditionNode", color |-> "plum"]
      [] OTHER ->
            [icon |-> "U+1F4E6", class |-> "", color |-> "lightgray"]

IsStyled(node) == StyleOf(node).class # ""
StyledNodes == SelectSeq(InNodes, IsStyled)

\* C3: every node's declaration carries the icon (Mermaid) or fill colour
\* (DOT) of its type, the generic one for any other type value; the Mermaid
\* class-assignment lines are exactly one per node of a styled type, binding
\* its id to the class of its type, and none for the other nodes.
C3_TypeStyling ==
    EmittedGraph =>
        LET decl == DeclLines
            styled == StyledNodes
        IN
        /\ result.ok
        /\ Len(decl) = Len(InNodes)
        /\ \A i \in DOMAIN InNodes :
              IF Emitter = "mermaid"
              THEN decl[i][4] = StyleOf(InNodes[i]).icon
              ELSE decl[i][6] = StyleOf(InNodes[i]).color
        /\ Emitter = "mermaid" =>
              ClassLines =
                 [n \in DOMAIN styled |->
                    <<"    class ", FieldText(styled[n], "id", "unknown"),
                      " ", StyleOf(styled[n]).class>>]

\* Mermaid rendered a graph holding a node of type condition and a node of
\* an unrecognised type.
C3_Witness ==
    /\ EmittedGraph
    /\ Emitter = "mermaid"
    /\ result.ok
    /\ \E i \in DOMAIN InNodes : TypeName(InNodes[i]) = "condition"
    /\ \E i \in DOMAIN InNodes : TypeName(InNodes[i]) = "bogus"
    /\ Len(ClassLines) = 1

(***************************************************************************)
(* C4                                                                      *)
(***************************************************************************)
HasNoLabel(edge) ==
    "label" \notin DOMAIN edge.v \/ edge.v["label"] = JStr("")
HasTextLabel(edge) ==
    /\ "label" \in DOMAIN edge.v
    /\ edge.v["label"].k = "str"
    /\ edge.v["label"].v # ""

\* The record with every empty-string label removed / every absent label
\* written as the empty string.
Relabelled(explicit) ==
    [k |-> "dict",
     v |-> [key \in DOMAIN workflow_data.v |->
              IF key # "edges" THEN workflow_data.v[key]
              ELSE JList([j \in DOMAIN InEdges |->
                     IF ~HasNoLabel(InEdges[j]) THEN InEdges[j]
                     ELSE [k |-> "dict",
                           v |-> [f \in (DOMAIN InEdges[j].v \ {"label"})
                                        \cup (IF explicit THEN {"label"} ELSE {}) |->
                                    IF f = "label" THEN JStr("")
                                    ELSE InEdges[j].v[f]]]])]]

\* C4: an edge whose label is absent or "" is emitted as the bare connector,
\* and both give the same text; an edge with a non-empty label is emitted
\* with the label text verbatim.
C4_EdgeLabelling ==
    EmittedGraph =>
        LET conn == ConnLines IN
        /\ result.ok
        /\ Len(conn) = Len(InEdges)
        /\ result = Emit(Emitter, Relabelled(TRUE))
        /\ result = Emit(Emitter, Relabelled(FALSE))
        /\ \A j \in DOMAIN InEdges :
              LET from == FieldText(InEdges[j], "from", "unknown")
                  to == FieldText(InEdges[j], "to", "unknown")
              IN /\ HasNoLabel(InEdges[j]) =>
                      conn[j] =
                         IF Emitter = "mermaid"
                         THEN <<"    ", from, " --> ", to>>
                         ELSE <<"    ", from, " -> ", to, ";">>
                 /\ HasTextLabel(InEdges[j]) =>
                      conn[j] =
                         IF Emitter = "mermaid"
                         THEN <<"    ", from, " -->|", InEdges[j].v["label"].v, "| ", to>>
                         ELSE <<"    ", from, " -> ", to, " [label=\"",
                                InEdges[j].v["label"].v, "\"];">>

\* An edge with an empty-string label and an edge with a non-empty label
\* were rendered.
C4_Witness ==
    /\ EmittedGraph
    /\ result.ok
    /\ \E j \in DOMAIN InEdges :
          "label" \in DOMAIN InEdges[j].v /\ InEdges[j].v["label"] = JStr("")
    /\ \E j \in DOMAIN InEdges : HasTextLabel(InEdges[j])
    /\ Relabelled(FALSE) # workflow_data

(***************************************************************************)
(* C5                                                                      *)
(***************************************************************************)
\* An emitter returned the text of a graph with no node and no edge.
EmittedEmptyGraph ==
    EmittedGraph /\ InNodes = <<>> /\ InEdges = <<>> /\ result.ok

IsBlank(l) == l = <<>>
NonBlankLines == SelectSeq(Lines, LAMBDA l : ~IsBlank(l))

\* The graph-declaration lines the claim names.
GraphDeclarationLines ==
    IF Emitter = "mermaid"
    THEN << <<"graph TD">> >>
    ELSE << <<"digraph Workflow {">>,
            <<"    rankdir=LR;">>,
            <<"    node [shape=box, style=rounded];">>,
            <<"}">> >>

\* C5 as stated: the text of the empty graph holds the graph-declaration
\* lines and nothing else (blank lines aside).
C5_OnlyGraphDeclaration ==
    EmittedEmptyGraph => NonBlankLines = GraphDeclarationLines

\* C5 as amended: the text of the empty graph holds no node statement, no
\* edge statement and no class-assignment line; it is the graph-declaration
\* lines plus, in Mermaid, the fixed styling block (a blank line, the
\* styling comment and the five classDef lines) and, in DOT, two blank
\* lines before the closing brace.
C5_EmptySkeleton ==
    EmittedEmptyGraph =>
        /\ DeclLines = <<>> /\ ConnLines = <<>> /\ ClassLines = <<>>
        /\ Lines =
             IF Emitter = "mermaid"
             THEN << <<"graph TD">>,
                     <<>>,
                     <<"    %% Styling">>,
                     <<"    classDef startNode fill:#90EE90,stroke:#333,stroke-width:2px">>,
                     <<"    classDef endNode fill:#FFB6C1,stroke:#333,stroke-width:2px">>,
                     <<"    classDef agentNode fill:#87CEEB,stroke:#333,stroke-width:2px">>,
                     <<"    classDef functionNode fill:#FFE4B5,stroke:#333,stroke-width:2px">>,
                     <<"    classDef conditionNode fill:#DDA0DD,stroke:#333,stroke-width:2px">> >>
             ELSE << <<"digraph Workflow {">>,
                     <<"    rankdir=LR;">>,
                     <<"    node [shape=box, style=rounded];">>,
                     <<>>,
                     <<>>,
                     <<"}">> >>

\* Mermaid rendered a record whose nodes and edges are present and empty.
C5_Witness ==
    /\ EmittedEmptyGraph
    /\ Emitter = "mermaid"
    /\ DOMAIN workflow_data.v = {"nodes", "edges"}
    /\ Len(Lines) = 8

(***************************************************************************)
(* C6                                                                      *)
(***************************************************************************)
\* C6: the declaration lines are the nodes in input order, the connector
\* lines are the edges in input order, the Mermaid class-assignment lines
\* are the styled nodes in input order, and every declaration line comes
\* before every connector line.
C6_InputOrder ==
    EmittedGraph =>
        LET lines == Lines
            decl == SelectSeq(lines, IsDecl)
            conn == SelectSeq(lines, IsConn)
            cls == SelectSeq(lines, IsClass)
            styled == StyledNodes
        IN
        /\ result.ok
        /\ Len(decl) = Len(InNodes)
        /\ \A i \in DOMAIN InNodes :
              /\ decl[i][2] = FieldText(InNodes[i], "id", "unknown")
              /\ decl[i][IF Emitter = "mermaid" THEN 6 ELSE 4] =
                    FieldText(InNodes[i], "name", "Unknown")
              /\ decl[i][IF Emitter = "mermaid" THEN 4 ELSE 6] =
                    (IF Emitter = "mermaid" THEN StyleOf(InNodes[i]).icon
                     ELSE StyleOf(InNodes[i]).color)
        /\ Len(conn) = Len(InEdges)
        /\ \A j \in DOMAIN InEdges :
              /\ ConnFrom(conn[j]) = FieldText(InEdges[j], "from", "unknown")
              /\ ConnTo(conn[j]) = FieldText(InEdges[j], "to", "unknown")
              /\ HasTextLabel(InEdges[j]) =>
                    conn[j][IF Emitter = "mermaid" THEN 4 ELSE 6] =
                        InEdges[j].v["label"].v
        /\ Len(cls) = (IF Emitter = "mermaid" THEN Len(styled) ELSE 0)
        /\ \A n \in DOMAIN cls :
              /\ cls[n][2] = FieldText(styled[n], "id", "unknown")
              /\ cls[n][4] = StyleOf(styled[n]).class
        /\ \A p, q \in DOMAIN lines :
              \/ IsDecl(lines[p]) /\ IsConn(lines[q])
              \/ IsConn(lines[p]) /\ IsClass(lines[q])
              => p < q

\* Two different edges and two different nodes were rendered.
C6_Witness ==
    /\ EmittedGraph
    /\ result.ok
    /\ Len(InEdges) >= 2 /\ InEdges[1] # InEdges[2]
    /\ Len(InNodes) >= 2 /\ InNodes[1] # InNodes[2]
    /\ Len(ConnLines) >= 2 /\ ConnFrom(ConnLines[1]) # ConnFrom(ConnLines[2])

(***************************************************************************)
(* C7                                                                      *)
(***************************************************************************)
DeclaredIds == {FieldText(InNodes[i], "id", "unknown") : i \in DOMAIN InNodes}

IsDangling(edge) ==
    \/ FieldText(edge, "from", "unknown") \notin DeclaredIds
    \/ FieldText(edge, "to", "unknown") \notin DeclaredIds
IsSelfLoop(edge) ==
    FieldText(edge, "from", "unknown") = FieldText(edge, "to", "unknown")
HasDuplicateIds == Cardinality(DeclaredIds) < Len(InNodes)

SampleBackEdge ==
    IF Emitter = "mermaid"
    THEN <<"    ", "review", " -->|", "Needs Revision", "| ", "analysis">>
    ELSE <<"    ", "review", " -> ", "analysis", " [label=\"", "Needs Revision", "\"];">>

\* C7: for every graph there is one declaration line per node entry and one
\* connector line per edge entry, each edge with its endpoints as given,
\* whether or not they are declared; the sample graph gives 6 declaration
\* lines and 6 connector lines, the back edge from review to analysis among
\* them.
C7_NothingDropped ==
    EmittedGraph =>
        LET decl == DeclLines
            conn == ConnLines
        IN
        /\ result.ok
        /\ Len(decl) = Len(InNodes)
        /\ Len(conn) = Len(InEdges)
        /\ \A j \in DOMAIN InEdges :
              /\ ConnFrom(conn[j]) = FieldText(InEdges[j], "from", "unknown")
              /\ ConnTo(conn[j]) = FieldText(InEdges[j], "to", "unknown")
        /\ workflow_data = create_sample_workflow =>
              /\ Len(decl) = 6
              /\ Len(conn) = 6
              /\ conn[6] = SampleBackEdge

\* The sample graph was rendered.
C7_Witness ==
    /\ EmittedGraph
    /\ result.ok
    /\ workflow_data = create_sample_workflow
    /\ Len(ConnLines) = 6

\* A graph with two nodes of one id, a dangling edge and a self-loop was
\* rendered.
C7_WitnessUnvalidated ==
    /\ EmittedGraph
    /\ result.ok
    /\ HasDuplicateIds
    /\ \E j \in DOMAIN InEdges : IsDangling(InEdges[j])

(***************************************************************************)
(* C8                                                                      *)
(***************************************************************************)
Ended == pc \in {"exited", "done"}
HasMode == pc # "idle" /\ Len(argv) >= 2
Mode == argv[2]

\* A graph was obtained: no file argument, or the file was read and parsed.
GraphObtained == Len(argv) = 2 \/ file.state = "json"

\* C8 as stated: a run whose mode string is neither mermaid nor dot invokes
\* no emitter and ends with the unrecognized-dialect error and a non-zero
\* status, whatever the other arguments are.
C8_UnknownModeAlwaysReported ==
    (HasMode /\ Mode \notin {"mermaid", "dot"}) =>
        /\ called = <<>>
        /\ Ended =>
              /\ exit_status # 0
              /\ stdout = <<UnknownFormatMessage(Mode)>>

\* C8 as amended: a run whose mode string, lower-cased, is neither mermaid
\* nor dot never invokes an emitter and ends with a non-zero status and no
\* diagram; it reports the unrecognized-dialect error (naming the
\* lower-cased mode) when no file argument is given or the file was read and
\* parsed, and the error of the file otherwise.
C8_UnknownModeRejected ==
    (HasMode /\ str_lower(Mode) \notin {"mermaid", "dot"}) =>
        /\ called = <<>>
        /\ result = NoResult
        /\ Ended =>
              /\ pc = "exited"
              /\ exit_status = 1
              /\ IF GraphObtained
                 THEN stdout = <<UnknownFormatMessage(str_lower(Mode))>> /\ stderr = <<>>
                 ELSE \/ file.state = "missing"
                         /\ stdout = <<NotFoundMessage(argv[3])>> /\ stderr = <<>>
                      \/ file.state = "invalid"
                         /\ stdout = <<InvalidJsonMessage(argv[3])>> /\ stderr = <<>>
                      \/ file.state = "unreadable"
                         /\ stdout = <<>> /\ stderr # <<>>

\* A run with mode svg on a readable JSON file ended with the
\* unrecognized-dialect error.
C8_Witness ==
    /\ Ended
    /\ Len(argv) = 3
    /\ Mode = "svg"
    /\ file.state = "json"
    /\ stdout = <<UnknownFormatMessage("svg")>>
    /\ exit_status = 1

(***************************************************************************)
(* C9                                                                      *)
(***************************************************************************)
\* The graph of the run: the sample when no file is given, else the file's.
RunGraph == IF Len(argv) = 2 THEN create_sample_workflow ELSE file.content

EndedWithError ==
    /\ exit_status = 1
    /\ called = <<>>
    /\ stdout # <<>> \/ stderr # <<>>
    /\ \A n \in DOMAIN stdout :
          stdout[n] \notin {generate_mermaid_diagram(RunGraph).text,
                            generate_dot_diagram(RunGraph).text}

EndedWithDiagram ==
    /\ exit_status = 0
    /\ GraphObtained
    /\ workflow_data = RunGraph
    /\ Len(called) = 1
    /\ result.ok
    /\ result = Emit(called[1], RunGraph)
    /\ stdout = <<result.text>>
    /\ stderr = <<>>

\* C9: every run of main ends either with a diagnostic and status 1, no
\* emitter invoked and no diagram printed, or with one graph obtained, one
\* emitter invoked once on it and exactly its text printed.
C9_TwoWaysToEnd == (pc # "idle" /\ Ended) => (EndedWithError \/ EndedWithDiagram)

====
